---- MODULE Spec2Model ----
(***************************************************************************)
(* A model of the Game of Life engine of src/src/lib.rs: the Universe      *)
(* (width, height, cells), its constructor, tick, set_cells, set_width,    *)
(* set_height and live_neighbor_count.                                     *)
(*                                                                         *)
(* width and height are u32.  The model checker's integers are 32-bit      *)
(* signed, so a u32 product is computed on 16-bit halves (MulWide) and the *)
(* model only draws dimensions below 2^31.                                 *)
(***************************************************************************)
EXTENDS Integers, Sequences, FiniteSets, TLC

VARIABLES width, height, cells, status, op, pc

vars == <<width, height, cells, status, op, pc>>

(***************************************************************************)
(* Cell                                                                    *)
(***************************************************************************)
Alive == 1
Dead == 0

(***************************************************************************)
(* Bounds of the model.                                                    *)
(***************************************************************************)
\* set_width / set_height arguments: 0..MaxDim, and SeedDim and BigDim
MaxDim == 2
\* set_cells coordinates (Spec): 0..MaxCoord
MaxCoord == 1
\* set_cells takes at most MaxList coordinate pairs (Spec)
MaxList == 1
\* no buffer longer than MaxCells is built
MaxCells == 4096
\* tick is only taken on buffers of at most MaxTickCells cells
MaxTickCells == 16
\* grids of SpecCount: at most MaxCountCells cells
MaxCountCells == 12
\* grids of SpecTick: at most MaxTickGridCells cells
MaxTickGridCells == 9
\* grids of SpecSetCells: at most MaxPaintCells cells, painted with at most
\* MaxPaintList coordinate pairs
MaxPaintCells == 6
MaxPaintList == 2
\* the blinker is run on grids of 5..MaxBlinkerDim columns and rows
MaxBlinkerDim == 6
\* buffers handed to the three-argument constructor: at most MaxBuf cells
MaxBuf == 4

(***************************************************************************)
(* u32 arithmetic                                                          *)
(***************************************************************************)
\* 2^16: a u32 is Hi * Half + Lo
Half == 65536

SeedDim == 64

\* 2^26: BigDim * SeedDim = 2^32
BigDim == Half * 1024

\* Byte i (0..3) of a u32 value below 2^31
Byte(n, i) ==
    (n \div (CASE i = 0 -> 1 [] i = 1 -> 256 [] i = 2 -> Half [] OTHER -> Half * 256)) % 256

\* The full product a * b of two u32 values (both below 2^31): its low 32
\* bits as two halves, and whether it is 2^32 or more (what `a * b` wraps on,
\* or panics on with overflow checks).  A product below 2^31 is taken as it
\* is; a larger one by long multiplication on bytes.
MulWide(a, b) ==
    IF a < Half \div 2 /\ b < Half
    THEN [hi |-> (a * b) \div Half, lo |-> (a * b) % Half, ovf |-> FALSE]
    ELSE
    LET c0 == Byte(a, 0) * Byte(b, 0)
        c1 == Byte(a, 0) * Byte(b, 1) + Byte(a, 1) * Byte(b, 0)
        c2 == Byte(a, 0) * Byte(b, 2) + Byte(a, 1) * Byte(b, 1) + Byte(a, 2) * Byte(b, 0)
        c3 == Byte(a, 0) * Byte(b, 3) + Byte(a, 1) * Byte(b, 2)
              + Byte(a, 2) * Byte(b, 1) + Byte(a, 3) * Byte(b, 0)
        c4 == Byte(a, 1) * Byte(b, 3) + Byte(a, 2) * Byte(b, 2) + Byte(a, 3) * Byte(b, 1)
        c5 == Byte(a, 2) * Byte(b, 3) + Byte(a, 3) * Byte(b, 2)
        c6 == Byte(a, 3) * Byte(b, 3)
        t1 == c1 + (c0 \div 256)
        t2 == c2 + (t1 \div 256)
        t3 == c3 + (t2 \div 256)
    IN [hi |-> (t3 % 256) * 256 + (t2 % 256),
        lo |-> (t1 % 256) * 256 + (c0 % 256),
        ovf |-> (t3 \div 256) + c4 + c5 + c6 > 0]

\* x + n for a wide value x and a u32 n below 2^31
AddWide(x, n) ==
    LET alo == x.lo + (n % Half)
        ahi == x.hi + (n \div Half) + (alo \div Half)
    IN [hi |-> ahi % Half, lo |-> alo % Half, ovf |-> x.ovf \/ ahi >= Half]

\* A wide value as usize; it is only compared with buffer lengths, which are
\* at most MaxCells, so a value of 2^16 or more is reported as Half.
AsUsize(x) == IF x.hi = 0 THEN x.lo ELSE Half

(***************************************************************************)
(* Universe: pure parts                                                    *)
(***************************************************************************)
\* get_index: row * width + column in u32, then `as usize`
get_index(w, row, column) == AddWide(MulWide(row, w), column)

\* self.cells[idx]: the index is out of bounds, or (built with overflow
\* checks) the index computation overflowed
IndexPanics(x, len, checks) == (checks /\ x.ovf) \/ AsUsize(x) >= len

\* cells.len() == width * height, as numbers (no wraparound)
WellFormed(w, h, cs) ==
    LET p == MulWide(w, h) IN ~p.ovf /\ AsUsize(p) = Len(cs)

row_deltas(h) == <<h - 1, 0, 1>>
col_deltas(w) == <<w - 1, 0, 1>>

\* The two nested loops of live_neighbor_count, flattened: step k is the
\* pair (row_deltas[k \div 3 + 1], col_deltas[k % 3 + 1]).
RECURSIVE LncLoop(_, _, _, _, _, _, _)
LncLoop(cs, w, h, row, column, k, count) ==
    IF k = 9 THEN count
    ELSE LET delta_r == row_deltas(h)[(k \div 3) + 1]
             delta_c == col_deltas(w)[(k % 3) + 1]
         IN IF delta_r = 0 /\ delta_c = 0
            THEN LncLoop(cs, w, h, row, column, k + 1, count)
            ELSE LET idx == AsUsize(get_index(w, (row + delta_r) % h,
                                                 (column + delta_c) % w))
                 IN LncLoop(cs, w, h, row, column, k + 1, count + cs[idx + 1])

\* The mutant of the exclusion test: a step is skipped when either delta is 0.
RECURSIVE LncLoopSkipsAxes(_, _, _, _, _, _, _)
LncLoopSkipsAxes(cs, w, h, row, column, k, count) ==
    IF k = 9 THEN count
    ELSE LET delta_r == row_deltas(h)[(k \div 3) + 1]
             delta_c == col_deltas(w)[(k % 3) + 1]
         IN IF delta_r = 0 \/ delta_c = 0
            THEN LncLoopSkipsAxes(cs, w, h, row, column, k + 1, count)
            ELSE LET idx == AsUsize(get_index(w, (row + delta_r) % h,
                                                 (column + delta_c) % w))
                 IN LncLoopSkipsAxes(cs, w, h, row, column, k + 1,
                                     count + cs[idx + 1])

live_neighbor_count_skips_axes(cs, w, h, row, column) ==
    LncLoopSkipsAxes(cs, w, h, row, column, 0, 0)

\* The mutant without wraparound: a neighbour off the grid counts as Dead.
live_neighbor_count_bounded(cs, w, h, row, column) ==
    LET Term(dr, dc) ==
            IF row + dr < 0 \/ row + dr >= h \/ column + dc < 0 \/ column + dc >= w
            THEN 0 ELSE cs[(row + dr) * w + (column + dc) + 1]
    IN Term(-1, -1) + Term(-1, 0) + Term(-1, 1) + Term(0, -1) + Term(0, 1)
       + Term(1, -1) + Term(1, 0) + Term(1, 1)

live_neighbor_count(cs, w, h, row, column) ==
    LncLoop(cs, w, h, row, column, 0, 0)

\* The mutant whose underpopulation bound is off by one: an Alive cell with 2
\* live neighbours dies.
next_cell_underpopulated_at_two(cell, neighbor_count) ==
    CASE cell = Alive /\ neighbor_count < 3 -> Dead
      [] cell = Alive /\ neighbor_count > 3 -> Dead
      [] cell = Dead /\ neighbor_count = 3 -> Alive
      [] cell = Alive /\ neighbor_count = 3 -> Alive
      [] OTHER -> cell

\* The match of tick
next_cell(cell, neighbor_count) ==
    CASE cell = Alive /\ neighbor_count < 2 -> Dead
      [] cell = Alive /\ neighbor_count > 3 -> Dead
      [] cell = Dead /\ neighbor_count = 3 -> Alive
      [] cell = Alive /\ (neighbor_count = 2 \/ neighbor_count = 3) -> Alive
      [] OTHER -> cell

\* The loops of tick over (row, col) in row-major order, step k being
\* (k \div w, k % w): reads self.cells (cs), writes next.
RECURSIVE TickLoop(_, _, _, _, _)
TickLoop(cs, w, h, k, next) ==
    IF k = w * h THEN next
    ELSE LET row == k \div w
             col == k % w
             idx == AsUsize(get_index(w, row, col))
             cell == cs[idx + 1]
             neighbor_count == live_neighbor_count(cs, w, h, row, col)
         IN TickLoop(cs, w, h, k + 1,
                     [next EXCEPT ![idx + 1] = next_cell(cell, neighbor_count)])

\* The mutant that updates the one buffer in place: later cells see the
\* cells already written.
RECURSIVE TickLoopInPlace(_, _, _, _)
TickLoopInPlace(cur, w, h, k) ==
    IF k = w * h THEN cur
    ELSE LET row == k \div w
             col == k % w
             idx == AsUsize(get_index(w, row, col))
             cell == cur[idx + 1]
             neighbor_count == live_neighbor_count(cur, w, h, row, col)
         IN TickLoopInPlace([cur EXCEPT ![idx + 1] = next_cell(cell, neighbor_count)],
                            w, h, k + 1)

tick_in_place(cs, w, h) == TickLoopInPlace(cs, w, h, 0)

\* tick on a grid whose buffer holds width * height cells: next is a clone
tick(cs, w, h) == TickLoop(cs, w, h, 0, cs)

\* The loop of set_cells from element i of the list on: the buffer as left,
\* and whether the loop ran to its end (no panic).
RECURSIVE SetCellsLoop(_, _, _, _, _)
SetCellsLoop(cs, w, list, i, checks) ==
    IF i > Len(list) THEN [cells |-> cs, ok |-> TRUE]
    ELSE LET idx == get_index(w, list[i][1], list[i][2])
         IN IF IndexPanics(idx, Len(cs), checks)
            THEN [cells |-> cs, ok |-> FALSE]
            ELSE SetCellsLoop([cs EXCEPT ![AsUsize(idx) + 1] = Alive],
                              w, list, i + 1, checks)

\* The mutant that writes the transposed index column * width + row.
RECURSIVE SetCellsLoopTransposed(_, _, _, _, _)
SetCellsLoopTransposed(cs, w, list, i, checks) ==
    IF i > Len(list) THEN [cells |-> cs, ok |-> TRUE]
    ELSE LET idx == get_index(w, list[i][2], list[i][1])
         IN IF IndexPanics(idx, Len(cs), checks)
            THEN [cells |-> cs, ok |-> FALSE]
            ELSE SetCellsLoopTransposed([cs EXCEPT ![AsUsize(idx) + 1] = Alive],
                                        w, list, i + 1, checks)

set_cells_transposed(cs, w, list, checks) ==
    SetCellsLoopTransposed(cs, w, list, 1, checks)

set_cells(cs, w, list, checks) == SetCellsLoop(cs, w, list, 1, checks)

\* The mutant whose seed needs both divisibilities.
SeedCellBoth(i) == IF i % 2 = 0 /\ i % 7 = 0 THEN Alive ELSE Dead

\* The closure of Universe::new
SeedCell(i) == IF i % 2 = 0 \/ i % 7 = 0 THEN Alive ELSE Dead

SeedCells == [j \in 1..(SeedDim * SeedDim) |-> SeedCell(j - 1)]

\* (0..n).map(|_| Cell::Dead).collect()
AllDead(n) == [j \in 1..n |-> Dead]

(***************************************************************************)
(* State                                                                   *)
(***************************************************************************)
\* op: the last call made on the Universe, with its scalar arguments and its
\* result.
\* pc: the host's script and its position: the grid (w, h) and the blinker's
\* centre (r, c) of SpecBlinker, the coordinate list of SpecSetCells; "free"
\* when the host calls in any order.
Call(kind, arg, ret) == [kind |-> kind, arg |-> arg, ret |-> ret]

Free == [step |-> "free", w |-> 0, h |-> 0, r |-> 0, c |-> 0, list |-> <<>>]

DimInputs == (0..MaxDim) \cup {SeedDim, BigDim}

Coords == (0..MaxCoord) \X (0..MaxCoord)

\* The lists of at most n elements of C
RECURSIVE ListsUpTo(_, _)
ListsUpTo(C, n) ==
    IF n = 0 THEN {<<>>}
    ELSE LET shorter == ListsUpTo(C, n - 1)
         IN shorter \cup {Append(l, x) : l \in {s \in shorter : Len(s) = n - 1},
                                         x \in C}

CoordLists == ListsUpTo(Coords, MaxList)

\* Universe::new()
NewState ==
    /\ width = SeedDim
    /\ height = SeedDim
    /\ cells = SeedCells
    /\ status = "ok"
    /\ op = Call("new", <<>>, 0)

Init == NewState /\ pc = Free

(***************************************************************************)
(* Operations                                                              *)
(***************************************************************************)
New ==
    /\ status = "ok"
    /\ width' = SeedDim
    /\ height' = SeedDim
    /\ cells' = SeedCells
    /\ op' = Call("new", <<>>, 0)
    /\ UNCHANGED <<status, pc>>

\* tick.  With no rows or no columns the loops have no iteration.  On a
\* buffer with no cell (and rows and columns) the first read, cells[0],
\* panics.  Otherwise the model takes tick on buffers of width * height
\* cells, at most cap of them.
TickStep(cap) ==
    /\ status = "ok"
    /\ IF width = 0 \/ height = 0
       THEN UNCHANGED <<cells, status>>
       ELSE IF Len(cells) = 0
            THEN /\ status' = "panicked"
                 /\ UNCHANGED cells
            ELSE /\ WellFormed(width, height, cells)
                 /\ Len(cells) <= cap
                 /\ cells' = tick(cells, width, height)
                 /\ UNCHANGED status
    /\ op' = Call("tick", <<>>, 0)
    /\ UNCHANGED <<width, height>>

Tick == pc.step = "free" /\ TickStep(MaxTickCells) /\ UNCHANGED pc

\* set_cells: built with or without overflow checks, which differ only when
\* an index computation overflows.
SetCellsStep(list) ==
    /\ status = "ok"
    /\ \E r \in {set_cells(cells, width, list, FALSE),
                 set_cells(cells, width, list, TRUE)} :
         /\ cells' = r.cells
         /\ status' = IF r.ok THEN "ok" ELSE "panicked"
    /\ op' = Call("set_cells", <<>>, 0)
    /\ UNCHANGED <<width, height>>

SetCells(list) == pc.step = "free" /\ SetCellsStep(list) /\ UNCHANGED pc

\* set_width: self.width = width, then the buffer of width * self.height
\* Dead cells.  The product is a u32: it wraps, or with overflow checks
\* panics after width was assigned.
SetWidthStep(w) ==
    /\ status = "ok"
    /\ LET p == MulWide(w, height)
       IN \/ /\ AsUsize(p) <= MaxCells
             /\ cells' = AllDead(AsUsize(p))
             /\ UNCHANGED status
          \/ /\ p.ovf
             /\ status' = "panicked"
             /\ UNCHANGED cells
    /\ width' = w
    /\ op' = Call("set_width", <<w>>, 0)
    /\ UNCHANGED height

SetWidth(w) == pc.step = "free" /\ SetWidthStep(w) /\ UNCHANGED pc

SetHeightStep(h) ==
    /\ status = "ok"
    /\ LET p == MulWide(width, h)
       IN \/ /\ AsUsize(p) <= MaxCells
             /\ cells' = AllDead(AsUsize(p))
             /\ UNCHANGED status
          \/ /\ p.ovf
             /\ status' = "panicked"
             /\ UNCHANGED cells
    /\ height' = h
    /\ op' = Call("set_height", <<h>>, 0)
    /\ UNCHANGED width

SetHeight(h) == pc.step = "free" /\ SetHeightStep(h) /\ UNCHANGED pc

Next ==
    \/ New
    \/ Tick
    \/ \E list \in CoordLists : SetCells(list)
    \/ \E w \in DimInputs : SetWidth(w)
    \/ \E h \in DimInputs : SetHeight(h)

Spec == Init /\ [][Next]_vars

(***************************************************************************)
(* Grids of every shape, and the calls that read them                      *)
(***************************************************************************)
\* Any grid of at most n cells: what set_width, set_height and set_cells
\* leave.
InitGridUpTo(n) ==
    /\ width \in 0..n
    /\ height \in 0..n
    /\ width * height <= n
    /\ cells \in [1..(width * height) -> {Dead, Alive}]
    /\ status = "ok"
    /\ op = Call("grid", <<>>, 0)

\* A call of live_neighbor_count(row, column) with row < height and
\* column < width, on a buffer of width * height cells.
LiveNeighborCount(row, column) ==
    /\ status = "ok"
    /\ pc.step = "free"
    /\ row < height
    /\ column < width
    /\ WellFormed(width, height, cells)
    /\ op' = Call("live_neighbor_count", <<row, column>>,
                  live_neighbor_count(cells, width, height, row, column))
    /\ UNCHANGED <<width, height, cells, status, pc>>

InitCount == InitGridUpTo(MaxCountCells) /\ pc = Free

\* One call on each grid: the call leaves the grid as it is.
NextCount ==
    /\ op.kind = "grid"
    /\ \E row \in 0..(height - 1), column \in 0..(width - 1) :
         LiveNeighborCount(row, column)

SpecCount == InitCount /\ [][NextCount]_vars

InitTick == InitGridUpTo(MaxTickGridCells) /\ pc = Free

NextTick == Tick

SpecTick == InitTick /\ [][NextTick]_vars

\* The host's script: one call of set_cells with a list of at most
\* MaxPaintList in-range coordinates.
InitSetCells ==
    /\ InitGridUpTo(MaxPaintCells)
    /\ pc \in {[Free EXCEPT !.step = "paint", !.list = l] :
                 l \in ListsUpTo((0..(height - 1)) \X (0..(width - 1)), MaxPaintList)}

PaintCells ==
    /\ pc.step = "paint"
    /\ SetCellsStep(pc.list)
    /\ pc' = [pc EXCEPT !.step = "painted"]

NextSetCells == PaintCells

SpecSetCells == InitSetCells /\ [][NextSetCells]_vars

(***************************************************************************)
(* The blinker: set_width, set_height, set_cells, tick, tick               *)
(***************************************************************************)
BlinkerDims == 5..MaxBlinkerDim

\* The host's script: a w x h grid and the blinker's centre (r, c).
InitBlinker ==
    /\ NewState
    /\ pc \in {p \in [step : {"new"}, w : BlinkerDims, h : BlinkerDims,
                      r : 1..(MaxBlinkerDim - 2), c : 1..(MaxBlinkerDim - 2),
                      list : {<<>>}] :
                 p.r <= p.h - 2 /\ p.c <= p.w - 2}

Horizontal(r, c) == <<<<r, c - 1>>, <<r, c>>, <<r, c + 1>>>>

At(step) == [pc EXCEPT !.step = step]

BlinkerSetWidth ==
    /\ pc.step = "new"
    /\ SetWidthStep(pc.w)
    /\ pc' = At("width")

BlinkerSetHeight ==
    /\ pc.step = "width"
    /\ SetHeightStep(pc.h)
    /\ pc' = At("height")

BlinkerSetCells ==
    /\ pc.step = "height"
    /\ SetCellsStep(Horizontal(pc.r, pc.c))
    /\ pc' = At("painted")

BlinkerTick1 ==
    /\ pc.step = "painted"
    /\ TickStep(MaxBlinkerDim * MaxBlinkerDim)
    /\ pc' = At("tick1")

BlinkerTick2 ==
    /\ pc.step = "tick1"
    /\ TickStep(MaxBlinkerDim * MaxBlinkerDim)
    /\ pc' = At("tick2")

NextBlinker ==
    \/ BlinkerSetWidth
    \/ BlinkerSetHeight
    \/ BlinkerSetCells
    \/ BlinkerTick1
    \/ BlinkerTick2

SpecBlinker == InitBlinker /\ [][NextBlinker]_vars

(***************************************************************************)
(* The constructor called with a width, a height and a buffer              *)
(***************************************************************************)
RECURSIVE BuffersUpTo(_)
BuffersUpTo(n) ==
    IF n = 0 THEN {<<>>}
    ELSE LET shorter == BuffersUpTo(n - 1)
         IN shorter \cup {Append(b, x) : b \in {s \in shorter : Len(s) = n - 1},
                                         x \in {Dead, Alive}}

\* The host calls Universe.new(w, h, cs).  The exported new takes no
\* parameter and has no assertion: it reads none of w, h and cs and builds
\* the 64 x 64 seeded grid.  op keeps what the host passed.
NewFrom(w, h, cs) ==
    /\ status = "ok"
    /\ pc.step = "free"
    /\ width' = SeedDim
    /\ height' = SeedDim
    /\ cells' = SeedCells
    /\ op' = Call("new_from", <<w, h, cs>>, 0)
    /\ UNCHANGED <<status, pc>>

NextNewFrom ==
    \E w \in 0..MaxDim, h \in 0..MaxDim, cs \in BuffersUpTo(MaxBuf) : NewFrom(w, h, cs)

SpecNewFrom == Init /\ [][NextNewFrom]_vars

(***************************************************************************)
(* Properties                                                              *)
(***************************************************************************)
\* n = w * h, as numbers
IsProduct(n, w, h) == IF w = 0 THEN n = 0 ELSE n % w = 0 /\ n \div w = h

\* The cell at (row, col) of a row-major buffer of width w
CellAt(cs, w, row, col) == cs[row * w + col + 1]

\* The row-major buffer of a w x h grid whose Alive cells are those of S
GridOf(w, h, S) ==
    [j \in 1..(w * h) |-> IF <<(j - 1) \div w, (j - 1) % w>> \in S THEN Alive ELSE Dead]

Range(list) == {list[i] : i \in 1..Len(list)}

\* C1: in every state reached from Universe::new() by tick, set_cells,
\* set_width and set_height, the buffer holds exactly width * height cells.
C1_BufferLength ==
    status = "ok" => IsProduct(Len(cells), width, height)

\* C2: after a tick every cell holds the B3/S23 result of the pre-tick grid:
\* an Alive cell stays Alive iff its pre-tick live_neighbor_count is 2 or 3, a
\* Dead cell becomes Alive iff it is 3, otherwise the cell is Dead; width,
\* height and the buffer length are those of the pre-tick grid.
C2_TickRule ==
    [][(op'.kind = "tick" /\ status' = "ok") =>
         /\ width' = width /\ height' = height /\ Len(cells') = Len(cells)
         /\ \A row \in 0..(height - 1), col \in 0..(width - 1) :
              LET n == live_neighbor_count(cells, width, height, row, col)
              IN CellAt(cells', width, row, col) =
                   IF CellAt(cells, width, row, col) = Alive
                   THEN (IF n = 2 \/ n = 3 THEN Alive ELSE Dead)
                   ELSE (IF n = 3 THEN Alive ELSE Dead)]_vars

\* A tick on a 3 x 3 grid has left an Alive cell and a Dead one.
C2_Witness ==
    /\ op.kind = "tick" /\ status = "ok" /\ width = 3 /\ height = 3
    /\ \E i, j \in 1..Len(cells) : cells[i] = Alive /\ cells[j] = Dead

\* The 8 toroidal Moore neighbours of (row, col)
Moore(w, h, row, col) ==
    {<<(row + dr) % h, (col + dc) % w>> :
        <<dr, dc>> \in ({-1, 0, 1} \X {-1, 0, 1}) \ {<<0, 0>>}}

\* C3: on a grid with width >= 3 and height >= 3, live_neighbor_count(row,
\* col) is the number of Alive cells among the 8 distinct toroidal Moore
\* neighbours of (row, col); so 0 on an all-Dead grid and 8 on a 3 x 3
\* all-Alive grid.
C3_MooreCount ==
    (op.kind = "live_neighbor_count" /\ width >= 3 /\ height >= 3) =>
        LET N == Moore(width, height, op.arg[1], op.arg[2])
        IN /\ Cardinality(N) = 8
           /\ op.ret = Cardinality({p \in N : CellAt(cells, width, p[1], p[2]) = Alive})
           /\ ((\A i \in 1..Len(cells) : cells[i] = Dead) => op.ret = 0)
           /\ ((\A i \in 1..Len(cells) : cells[i] = Alive) => op.ret = 8)

\* live_neighbor_count of a corner of the 3 x 3 all-Alive grid returned 8.
C3_Witness ==
    /\ op.kind = "live_neighbor_count" /\ op.arg = <<0, 0>> /\ op.ret = 8
    /\ width = 3 /\ height = 3
    /\ \A i \in 1..Len(cells) : cells[i] = Alive

\* C4: after set_width(w), width = w, height is unchanged and every one of
\* the w * height cells is Dead; after set_height(h), height = h, width is
\* unchanged and every one of the width * h cells is Dead.
C4_ResetAllDead ==
    [][/\ (op'.kind = "set_width" /\ status' = "ok") =>
            /\ width' = op'.arg[1]
            /\ height' = height
            /\ IsProduct(Len(cells'), op'.arg[1], height)
            /\ \A i \in 1..Len(cells') : cells'[i] = Dead
       /\ (op'.kind = "set_height" /\ status' = "ok") =>
            /\ height' = op'.arg[1]
            /\ width' = width
            /\ IsProduct(Len(cells'), width, op'.arg[1])
            /\ \A i \in 1..Len(cells') : cells'[i] = Dead]_vars

InRange(list, w, h) == \A x \in Range(list) : x[1] < h /\ x[2] < w

\* C5: on a grid, after set_cells(S) with every (row, col) of S in range,
\* each cell of S is Alive, every other cell has its prior value, and width,
\* height and the buffer length are unchanged.
C5_SetCellsFrame ==
    [][(/\ pc.step = "paint" /\ pc'.step = "painted"
        /\ WellFormed(width, height, cells)
        /\ InRange(pc.list, width, height)) =>
         /\ op'.kind = "set_cells" /\ status' = "ok"
         /\ width' = width /\ height' = height /\ Len(cells') = Len(cells)
         /\ \A row \in 0..(height - 1), col \in 0..(width - 1) :
              CellAt(cells', width, row, col) =
                IF <<row, col>> \in Range(pc.list) THEN Alive
                ELSE CellAt(cells, width, row, col)]_vars

\* set_cells of two in-range coordinates has run on a 3 x 2 grid and left
\* three cells Alive (one of them outside the list) and three Dead.
C5_Witness ==
    /\ pc.step = "painted" /\ op.kind = "set_cells" /\ status = "ok"
    /\ width = 3 /\ height = 2 /\ Len(cells) = 6
    /\ Cardinality(Range(pc.list)) = 2 /\ InRange(pc.list, width, height)
    /\ Cardinality({i \in 1..6 : cells[i] = Alive}) = 3

\* C6: new(width, height, cells) with cells.len() = width * height yields the
\* grid of exactly these cells, of width * height cells; with any other
\* buffer it fails, and builds no grid from a cut or padded buffer.
C6_NewFrom ==
    op.kind = "new_from" =>
        LET w == op.arg[1]
            h == op.arg[2]
            cs == op.arg[3]
        IN IF Len(cs) = w * h
           THEN /\ status = "ok"
                /\ width = w /\ height = h /\ cells = cs
                /\ Len(cells) = w * h
           ELSE status = "panicked"

\* C7: new() yields the 64 x 64 grid of 4096 cells whose cell i is Alive iff
\* i % 2 = 0 or i % 7 = 0, and Dead otherwise: always the same grid.
C7_NewIsSeed ==
    op.kind = "new" =>
        /\ status = "ok"
        /\ width = 64 /\ height = 64 /\ Len(cells) = 4096
        /\ \A i \in 0..4095 :
             /\ (cells[i + 1] = Alive) <=> (i % 2 = 0 \/ i % 7 = 0)
             /\ cells[i + 1] \in {Alive, Dead}

\* new() has run: cell 7 and cell 8 are Alive, cell 9 is Dead.
C7_Witness ==
    /\ op.kind = "new" /\ Len(cells) = 4096
    /\ cells[8] = Alive /\ cells[9] = Alive /\ cells[10] = Dead

Vertical(r, c) == <<<<r - 1, c>>, <<r, c>>, <<r + 1, c>>>>

\* C8: on an all-Dead grid with width >= 5 and height >= 5 (set_width,
\* set_height, then set_cells), the blinker (r, c-1), (r, c), (r, c+1) is
\* after one tick exactly (r-1, c), (r, c), (r+1, c), and after two ticks
\* the original grid.
C8_Blinker ==
    /\ pc.step = "painted" =>
         status = "ok" /\ cells = GridOf(pc.w, pc.h, Range(Horizontal(pc.r, pc.c)))
    /\ pc.step = "tick1" =>
         status = "ok" /\ cells = GridOf(pc.w, pc.h, Range(Vertical(pc.r, pc.c)))
    /\ pc.step = "tick2" =>
         status = "ok" /\ cells = GridOf(pc.w, pc.h, Range(Horizontal(pc.r, pc.c)))

\* The second tick has run on a 5 x 6 grid whose blinker touches column 0.
C8_Witness ==
    /\ pc.step = "tick2" /\ status = "ok" /\ width = 5 /\ height = 6 /\ pc.c = 1
    /\ Cardinality({i \in 1..Len(cells) : cells[i] = Alive}) = 3

\* C9: in every state reached from Universe::new() by tick, set_cells,
\* set_width(w) and set_height(h), width >= 1 and height >= 1.
C9_PositiveDims ==
    status = "ok" => (width >= 1 /\ height >= 1)

\* The term of live_neighbor_count for row delta dr and column delta dc
Term(cs, w, h, row, col, dr, dc) ==
    cs[((row + dr) % h) * w + ((col + dc) % w) + 1]

\* The sum of the terms of the pairs (i, j) of P, i and j being positions in
\* the delta lists (height - 1, 0, 1) and (width - 1, 0, 1)
RECURSIVE SumTerms(_, _, _, _, _, _)
SumTerms(cs, w, h, row, col, P) ==
    IF P = {} THEN 0
    ELSE LET p == CHOOSE x \in P : TRUE
         IN Term(cs, w, h, row, col, <<h - 1, 0, 1>>[p[1]], <<w - 1, 0, 1>>[p[2]])
            + SumTerms(cs, w, h, row, col, P \ {p})

Positions == (1..3) \X (1..3)

\* C10 as stated: on every grid with width >= 1 and height >= 1,
\* live_neighbor_count(row, col) is the sum of exactly 8 terms, one per pair
\* of a row delta of (height-1, 0, 1) and a column delta of (width-1, 0, 1)
\* but the pair of the two middle deltas, and is in [0, 8].
C10_EightTerms ==
    (op.kind = "live_neighbor_count" /\ width >= 1 /\ height >= 1) =>
        /\ op.ret = SumTerms(cells, width, height, op.arg[1], op.arg[2],
                             Positions \ {<<2, 2>>})
        /\ op.ret \in 0..8

\* The pairs of positions whose deltas are not both 0
Counted(w, h) ==
    {p \in Positions : ~(<<h - 1, 0, 1>>[p[1]] = 0 /\ <<w - 1, 0, 1>>[p[2]] = 0)}

\* C10 as amended: live_neighbor_count(row, col) is the sum of one term per
\* pair of a row delta of (height-1, 0, 1) and a column delta of (width-1, 0,
\* 1) whose two deltas are not both 0: the 8 pairs but the middle one when
\* width >= 2 and height >= 2, 7 pairs when exactly one of width and height is
\* 1, 5 pairs on the 1 x 1 grid; it is in [0, 8].
C10_TermsNotBothZero ==
    (op.kind = "live_neighbor_count" /\ width >= 1 /\ height >= 1) =>
        /\ op.ret = SumTerms(cells, width, height, op.arg[1], op.arg[2],
                             Counted(width, height))
        /\ (width >= 2 /\ height >= 2) => Counted(width, height) = Positions \ {<<2, 2>>}
        /\ ((width = 1) # (height = 1)) => Cardinality(Counted(width, height)) = 7
        /\ (width = 1 /\ height = 1) => Cardinality(Counted(width, height)) = 5
        /\ op.ret \in 0..8

\* live_neighbor_count(0, 0) of the 1 x 1 grid of an Alive cell returned 5.
C10_Witness ==
    /\ op.kind = "live_neighbor_count" /\ width = 1 /\ height = 1
    /\ cells = <<Alive>> /\ op.ret = 5

====
